---- MODULE Spec2Model ----
(***************************************************************************)
(* A model of src/app.py: the rate limiter (RateLimiter.wait), the chunked *)
(* fetch (download_stock_data), the per-symbol scoring (calculate_returns, *)
(* process_symbol) and the aggregation (analyze_universe,                  *)
(* get_top_universes_by_momentum, get_top_momentum_stocks_overall).        *)
(*                                                                         *)
(* Each component has a specification of its own (SpecRL, SpecFetch,       *)
(* SpecScore, SpecAgg); the variables of the other components stay at      *)
(* their idle values in it.  SpecRLLive and SpecFetchLive add the fairness *)
(* under which every call of wait() and every fetch comes to its end.      *)
(* SpecCache puts the memoizing decorator of line 185 in front of the      *)
(* fetch and runs several calls one after another.                         *)
(***************************************************************************)
EXTENDS Integers, Sequences, FiniteSets, TLC

VARIABLES
    \* ---- RateLimiter (src/app.py:29-66) ----
    clock,                  \* time.time(), in ticks
    lock,                   \* self.lock: 0 when free, else the holding thread
    request_times,          \* self.request_times (deque, oldest first)
    minute_request_times,   \* self.minute_request_times (deque, oldest first)
    rl_pc,                  \* each thread's position inside wait()
    now,                    \* each thread's local `now`
    wake_at,                \* the earliest clock at which a time.sleep() returns
    admitted,               \* history: every timestamp wait() has recorded
    \* ---- download_stock_data (src/app.py:185-262) ----
    fyers,                  \* the provider client: TRUE when configured, FALSE for None
    start_date,             \* the call's start_date, a day number
    end_date,               \* the call's end_date, a day number
    f_pc,                   \* position inside download_stock_data
    current_start,
    current_end,
    attempt,                \* the index of the for loop over range(retries)
    all_data,               \* the list of fetched chunks, each a sequence of candle dates
    f_result,               \* the returned series (candle dates), once f_pc = "done"
    admissions,             \* history: calls of fyers_rate_limiter.wait() by this fetch
    n_requests,             \* history: calls of fyers.history() by this fetch
    attempts_log,           \* history: the current window's requests, [resp, delay]
    requested,              \* history: the windows requested, [from, to, n, ok]
    \* ---- process_symbol (src/app.py:275-331) ----
    series,                 \* the Close column of the fetched frame, oldest first
    s_pc,                   \* position of the call of process_symbol
    s_result,               \* its return value
    \* ---- analyze_universe and the two rankings (src/app.py:333-379) ----
    a_pc,                   \* position of the run over STOCK_UNIVERSE
    uni,                    \* the index of the universe being analyzed
    sym,                    \* the index of the universe's next symbol
    rows,                   \* analyze_universe: rows
    in_flight,              \* the calls of process_symbol that have not returned
    processed,              \* history: what each symbol of the universe in hand
                            \* (or of the one just returned) fetched and returned
    results,                \* what analyze_universe returned, per universe analyzed
    ranking,                \* what get_top_universes_by_momentum returned
    top,                    \* what get_top_momentum_stocks_overall returned
    \* ---- st.cache_data in front of download_stock_data (src/app.py:185) ----
    cache,                  \* the cached return values, a set of [key, value]
    c_pc,                   \* position of the call of the decorated function
    ticker,                 \* the call's ticker
    c_ret,                  \* what the latest call returned to its caller
    c_seen,                 \* history: a call with the latest call's key had
                            \* completed before it began
    first,                  \* history: per key, what the first completed call
                            \* returned and whether it had a provider client
    n_calls                 \* history: the number of calls begun

rl_vars == <<clock, lock, request_times, minute_request_times, rl_pc, now,
             wake_at, admitted>>

f_vars == <<fyers, start_date, end_date, f_pc, current_start, current_end,
            attempt, all_data, f_result, admissions, n_requests, attempts_log,
            requested>>

s_vars == <<series, s_pc, s_result>>

a_vars == <<a_pc, uni, sym, rows, in_flight, processed, results, ranking, top>>

c_vars == <<cache, c_pc, ticker, c_ret, c_seen, first, n_calls>>

vars == <<rl_vars, f_vars, s_vars, a_vars, c_vars>>

(***************************************************************************)
(* Generic helpers.                                                        *)
(***************************************************************************)
Min(a, b) == IF a <= b THEN a ELSE b

Range(s) == {s[i] : i \in 1..Len(s)}

Last(s) == s[Len(s)]

RECURSIVE Pow(_, _)
Pow(b, e) == IF e = 0 THEN 1 ELSE b * Pow(b, e - 1)

(***************************************************************************)
(* RateLimiter.                                                            *)
(*                                                                         *)
(* Time is counted in ticks.  The two windows of the source (1 second and  *)
(* 60 seconds) and the two caps (10 and 190) are scaled down so that both  *)
(* caps bind within the explored horizon; the algorithm is the source's.   *)
(***************************************************************************)
NumThreads == 2

MaxTime == 6

MaxCalls == 6

\* the per-second window of the source (`now - 1`), in ticks
SecondWindow == 2

\* the per-minute window of the source (`now - 60`), in ticks
MinuteWindow == 5

\* MAX_REQUESTS_PER_SECOND = 10 in the source, scaled
MAX_REQUESTS_PER_SECOND == 2

\* MAX_REQUESTS_PER_MINUTE = 190 in the source, scaled
MAX_REQUESTS_PER_MINUTE == 3

Threads == 1..NumThreads

RECURSIVE Evict(_, _)
\* while q and q[0] <= horizon: q.popleft()
Evict(q, horizon) ==
    IF q # <<>> /\ Head(q) <= horizon THEN Evict(Tail(q), horizon) ELSE q

\* a mutant that evicts one tick too early (`<= horizon + 1`)
EvictSecond_Early(q, t) == Evict(q, t - SecondWindow + 1)

\* lines 40-41
EvictSecond(q, t) == Evict(q, t - SecondWindow)

\* lines 51-52 and 61-62
EvictMinute(q, t) == Evict(q, t - MinuteWindow)

\* a mutant that compares with > instead of >=
SecondLimitReached_Gt(q) == Len(q) > MAX_REQUESTS_PER_SECOND

\* line 43
SecondLimitReached(q) == Len(q) >= MAX_REQUESTS_PER_SECOND

\* line 54
MinuteLimitReached(q) == Len(q) >= MAX_REQUESTS_PER_MINUTE

RLInit ==
    /\ clock = 0
    /\ lock = 0
    /\ request_times = <<>>
    /\ minute_request_times = <<>>
    /\ rl_pc = [t \in Threads |-> "idle"]
    /\ now = [t \in Threads |-> 0]
    /\ wake_at = [t \in Threads |-> 0]
    /\ admitted = <<>>

\* the fetch when no call of download_stock_data is in progress
FIdle ==
    /\ fyers = FALSE
    /\ start_date = 0
    /\ end_date = 0
    /\ f_pc = "idle"
    /\ current_start = 0
    /\ current_end = 0
    /\ attempt = 0
    /\ all_data = <<>>
    /\ f_result = <<>>
    /\ admissions = 0
    /\ n_requests = 0
    /\ attempts_log = <<>>
    /\ requested = <<>>

\* the scorer when no call of process_symbol is in progress
SIdle ==
    /\ series = <<>>
    /\ s_pc = "idle"
    /\ s_result = [ret |-> "pending"]

\* the aggregation when no run over STOCK_UNIVERSE is in progress
AIdle ==
    /\ a_pc = "idle"
    /\ uni = 1
    /\ sym = 1
    /\ rows = <<>>
    /\ in_flight = {}
    /\ processed = <<>>
    /\ results = <<>>
    /\ ranking = <<>>
    /\ top = <<>>

\* the cache when the decorated function has not been called
CIdle ==
    /\ cache = {}
    /\ c_pc = "idle"
    /\ ticker = 0
    /\ c_ret = <<>>
    /\ c_seen = FALSE
    /\ first = {}
    /\ n_calls = 0

\* calls to wait() that have started and not yet recorded
InFlight == Cardinality({t \in Threads : rl_pc[t] # "idle"})

\* a thread calls wait(): it waits for the lock at line 36
Call(t) ==
    /\ rl_pc[t] = "idle"
    /\ UNCHANGED <<f_vars, s_vars, a_vars, c_vars>>
    /\ Len(admitted) + InFlight < MaxCalls
    /\ rl_pc' = [rl_pc EXCEPT ![t] = "lock"]
    /\ UNCHANGED <<clock, lock, request_times, minute_request_times, now,
                   wake_at, admitted>>

\* lines 36-37: with self.lock: now = time.time()
Acquire(t) ==
    /\ rl_pc[t] = "lock"
    /\ UNCHANGED <<f_vars, s_vars, a_vars, c_vars>>
    /\ lock = 0
    /\ lock' = t
    /\ now' = [now EXCEPT ![t] = clock]
    /\ rl_pc' = [rl_pc EXCEPT ![t] = "second"]
    /\ UNCHANGED <<clock, request_times, minute_request_times, wake_at,
                   admitted>>

\* lines 40-47: evict, compare with the cap, start the sleep
SecondCheck(t) ==
    /\ rl_pc[t] = "second"
    /\ UNCHANGED <<f_vars, s_vars, a_vars, c_vars>>
    /\ LET q == EvictSecond(request_times, now[t])
           wait_time == IF q = <<>> THEN 0
                        ELSE SecondWindow - (now[t] - Head(q))
       IN /\ request_times' = q
          /\ IF SecondLimitReached(q) /\ wait_time > 0
             THEN /\ wake_at' = [wake_at EXCEPT ![t] = clock + wait_time]
                  /\ rl_pc' = [rl_pc EXCEPT ![t] = "second_sleep"]
             ELSE /\ rl_pc' = [rl_pc EXCEPT ![t] = "minute"]
                  /\ UNCHANGED wake_at
    /\ UNCHANGED <<clock, lock, minute_request_times, now, admitted>>

\* a mutant that loops back to the check without reading the time again
SecondWake_StaleLoop(t) ==
    /\ rl_pc[t] = "second_sleep"
    /\ UNCHANGED <<f_vars, s_vars, a_vars, c_vars>>
    /\ clock >= wake_at[t]
    /\ wake_at' = [wake_at EXCEPT ![t] = 0]
    /\ rl_pc' = [rl_pc EXCEPT ![t] = "second"]
    /\ UNCHANGED <<clock, lock, request_times, minute_request_times, now, admitted>>

\* lines 47-48: time.sleep(wait_time) returns; now = time.time()
SecondWake(t) ==
    /\ rl_pc[t] = "second_sleep"
    /\ UNCHANGED <<f_vars, s_vars, a_vars, c_vars>>
    /\ clock >= wake_at[t]
    /\ now' = [now EXCEPT ![t] = clock]
    /\ wake_at' = [wake_at EXCEPT ![t] = 0]
    /\ rl_pc' = [rl_pc EXCEPT ![t] = "minute"]
    /\ UNCHANGED <<clock, lock, request_times, minute_request_times, admitted>>

\* lines 51-58: evict, compare with the cap, start the sleep
MinuteCheck(t) ==
    /\ rl_pc[t] = "minute"
    /\ UNCHANGED <<f_vars, s_vars, a_vars, c_vars>>
    /\ LET q == EvictMinute(minute_request_times, now[t])
           wait_time_min == IF q = <<>> THEN 0
                            ELSE MinuteWindow - (now[t] - Head(q))
       IN /\ minute_request_times' = q
          /\ IF MinuteLimitReached(q) /\ wait_time_min > 0
             THEN /\ wake_at' = [wake_at EXCEPT ![t] = clock + wait_time_min]
                  /\ rl_pc' = [rl_pc EXCEPT ![t] = "minute_sleep"]
             ELSE /\ rl_pc' = [rl_pc EXCEPT ![t] = "record"]
                  /\ UNCHANGED wake_at
    /\ UNCHANGED <<clock, lock, request_times, now, admitted>>

\* lines 58-62: the sleep returns; now = time.time(); evict again
MinuteWake(t) ==
    /\ rl_pc[t] = "minute_sleep"
    /\ UNCHANGED <<f_vars, s_vars, a_vars, c_vars>>
    /\ clock >= wake_at[t]
    /\ now' = [now EXCEPT ![t] = clock]
    /\ minute_request_times' = EvictMinute(minute_request_times, clock)
    /\ wake_at' = [wake_at EXCEPT ![t] = 0]
    /\ rl_pc' = [rl_pc EXCEPT ![t] = "record"]
    /\ UNCHANGED <<clock, lock, request_times, admitted>>

\* lines 65-66, and the release of the lock at the end of the with block
\* (the local `now` goes out of scope)
Record(t) ==
    /\ rl_pc[t] = "record"
    /\ UNCHANGED <<f_vars, s_vars, a_vars, c_vars>>
    /\ request_times' = Append(request_times, now[t])
    /\ minute_request_times' = Append(minute_request_times, now[t])
    /\ admitted' = Append(admitted, now[t])
    /\ lock' = 0
    /\ now' = [now EXCEPT ![t] = 0]
    /\ rl_pc' = [rl_pc EXCEPT ![t] = "idle"]
    /\ UNCHANGED <<clock, wake_at>>

\* time passes
Tick ==
    /\ clock < MaxTime
    /\ UNCHANGED <<f_vars, s_vars, a_vars, c_vars>>
    /\ clock' = clock + 1
    /\ UNCHANGED <<lock, request_times, minute_request_times, rl_pc, now,
                   wake_at, admitted>>

RLNext ==
    \/ Tick
    \/ \E t \in Threads : Call(t)
    \/ \E t \in Threads : Acquire(t)
    \/ \E t \in Threads : SecondCheck(t)
    \/ \E t \in Threads : SecondWake(t)
    \/ \E t \in Threads : MinuteCheck(t)
    \/ \E t \in Threads : MinuteWake(t)
    \/ \E t \in Threads : Record(t)

RLSpecInit == RLInit /\ FIdle /\ SIdle /\ AIdle /\ CIdle

SpecRL == RLSpecInit /\ [][RLNext]_vars

\* a thread is inside time.sleep() and the sleep is not over
Sleeping(t) == rl_pc[t] \in {"second_sleep", "minute_sleep"} /\ clock < wake_at[t]

\* the longest the calls of the model can sleep altogether: each call sleeps
\* at most once on each window
MaxSleep == MaxCalls * (SecondWindow + MinuteWindow)

\* time passes beyond the explored horizon while a caller sleeps, so that
\* every sleep comes to its end
Overtime ==
    /\ clock >= MaxTime
    /\ clock < MaxTime + MaxSleep
    /\ \E t \in Threads : Sleeping(t)
    /\ UNCHANGED <<f_vars, s_vars, a_vars, c_vars>>
    /\ clock' = clock + 1
    /\ UNCHANGED <<lock, request_times, minute_request_times, rl_pc, now,
                   wake_at, admitted>>

\* the steps of thread t inside the with block (lines 37-66)
Inside(t) ==
    \/ SecondCheck(t)
    \/ SecondWake(t)
    \/ MinuteCheck(t)
    \/ MinuteWake(t)
    \/ Record(t)

RLLiveNext ==
    \/ RLNext
    \/ Overtime

\* time advances, the lock is granted fairly to the threads that wait for it
\* (it is free again and again, hence the strong fairness), and a thread
\* inside the with block keeps running
RLFairness ==
    /\ WF_vars(Tick \/ Overtime)
    /\ \A t \in Threads : SF_vars(Acquire(t))
    /\ WF_vars(\E t \in Threads : Inside(t))

SpecRLLive == RLSpecInit /\ [][RLLiveNext]_vars /\ RLFairness

\* the number of recorded timestamps in the rolling window (t - w, t]
InWindow(t, w) ==
    Cardinality({i \in 1..Len(admitted) : admitted[i] > t - w /\ admitted[i] <= t})

\* C1: whatever the threads do, for every instant t at most
\* MAX_REQUESTS_PER_SECOND recorded timestamps lie in (t - 1 s, t] and at most
\* MAX_REQUESTS_PER_MINUTE lie in (t - 60 s, t].
C1_RateBound ==
    \A t \in 0..MaxTime :
        /\ InWindow(t, SecondWindow) <= MAX_REQUESTS_PER_SECOND
        /\ InWindow(t, MinuteWindow) <= MAX_REQUESTS_PER_MINUTE

\* C1 witness: both caps were reached and made a caller sleep, and more calls
\* than either cap have been recorded.
C1_Witness ==
    /\ Len(admitted) > MAX_REQUESTS_PER_MINUTE
    /\ \E t \in 0..MaxTime : InWindow(t, SecondWindow) = MAX_REQUESTS_PER_SECOND
    /\ \E t \in 0..MaxTime : InWindow(t, MinuteWindow) = MAX_REQUESTS_PER_MINUTE
    /\ \E t, u \in Threads : rl_pc[t] = "second_sleep" /\ rl_pc[u] = "lock"

\* C18: whenever a call has been admitted (its timestamp appended),
\* request_times holds at most MAX_REQUESTS_PER_SECOND entries and
\* minute_request_times at most MAX_REQUESTS_PER_MINUTE, the limiter having
\* evicted the expired entries again after a sleep.
C18_DequeBound ==
    /\ Len(request_times) <= MAX_REQUESTS_PER_SECOND
    /\ Len(minute_request_times) <= MAX_REQUESTS_PER_MINUTE

\* what does hold of the two deques: the per-minute one never exceeds its
\* cap; the per-second one holds at most its cap when the timestamp is about
\* to be appended, and one entry more afterwards, the oldest of them expired
DequeLengths ==
    /\ Len(minute_request_times) <= MAX_REQUESTS_PER_MINUTE
    /\ Len(request_times) <= MAX_REQUESTS_PER_SECOND + 1
    /\ \A t \in Threads :
          rl_pc[t] \in {"minute", "minute_sleep", "record"} =>
             Len(request_times) <= MAX_REQUESTS_PER_SECOND

\* thread t returns from wait() in this step
Returns(t) == rl_pc[t] # "idle" /\ rl_pc'[t] = "idle"

\* C12: under fair granting of the lock and advancing time every call of
\* wait() returns; the step in which it returns appends one and the same
\* timestamp to request_times and to minute_request_times, and no other step
\* of the call appends anything.
C12_WaitReturns ==
    /\ \A t \in Threads : (rl_pc[t] # "idle") ~> (rl_pc[t] = "idle")
    /\ [][\A t \in Threads :
             /\ Returns(t) =>
                   /\ request_times' = Append(request_times, Last(admitted'))
                   /\ minute_request_times' =
                         Append(minute_request_times, Last(admitted'))
                   /\ Len(admitted') = Len(admitted) + 1
             /\ (\A u \in Threads : ~Returns(u)) =>
                   /\ Len(request_times') <= Len(request_times)
                   /\ Len(minute_request_times') <= Len(minute_request_times)
                   /\ admitted' = admitted]_vars

\* C12 witness: every call the model allows has returned, the last of them
\* after sleeping past the horizon while another caller waited for the lock.
C12_Witness ==
    /\ Len(admitted) = MaxCalls
    /\ \A t \in Threads : rl_pc[t] = "idle"
    /\ Last(admitted) > MaxTime

(***************************************************************************)
(* download_stock_data (lines 185-262).                                    *)
(*                                                                         *)
(* Dates are day numbers.  A candle is its date; a chunk is the sequence   *)
(* of candles one successful request returned.  Delays are milliseconds.   *)
(***************************************************************************)
MaxStart == 1

MaxSpan == 181

\* retries=5 (line 186)
retries == 5

\* timedelta(days=89) (line 198)
ChunkDays == 89

\* time.sleep(0.2) (line 223), in milliseconds
RATE_LIMIT_SLEEP_MS == 200

\* a mutant whose windows are one day longer
WindowEnd_Long(cs, e) == Min(cs + ChunkDays + 1, e)

\* line 198: current_end = min(current_start + timedelta(days=89), end_date)
WindowEnd(cs, e) == Min(cs + ChunkDays, e)

\* a mutant whose next window starts on the day the previous one ended
NextStart_Overlap(ce) == ce

\* line 247: current_start = current_end + timedelta(days=1)
NextStart(ce) == ce + 1

\* a mutant that backs off linearly
Backoff_Linear(a) == 1000 * 2 * a

\* line 241: time.sleep(2 ** attempt), in milliseconds
Backoff(a) == 1000 * Pow(2, a)

\* a mutant that sleeps after the last attempt too
MayRetry_Always(a) == TRUE

\* line 240: if attempt < retries - 1
MayRetry(a) == a < retries - 1

\* what the provider may return for the window [cs, ce]: candles in order, or
\* candles out of order with one dated past the window's end
Payloads(cs, ce) == {<<cs, ce>>, <<ce + 1, cs>>}

\* the one element of a singleton; Only({f(y) : y \in {e}}) is f(e) with e
\* evaluated once
Only(S) == CHOOSE x \in S : TRUE

\* line 253: pd.concat(all_data)
RECURSIVE Concat(_)
Concat(chunks) ==
    IF chunks = <<>> THEN <<>> ELSE Head(chunks) \o Concat(Tail(chunks))

\* inserts x after the last element that is <= x (a stable insertion)
RECURSIVE InsertAsc(_, _)
InsertAsc(x, s) ==
    IF s = <<>> THEN <<x>>
    ELSE IF x < Head(s) THEN <<x>> \o s
    ELSE <<Head(s)>> \o InsertAsc(x, Tail(s))

\* line 256: full_df.sort_index(inplace=True)
RECURSIVE SortAsc(_)
SortAsc(s) ==
    IF s = <<>> THEN <<>>
    ELSE Only({InsertAsc(Last(s), r) : r \in {SortAsc(SubSeq(s, 1, Len(s) - 1))}})

\* a mutant that keeps the duplicated dates
DropDuplicated_None(s) == s

\* line 259: full_df[~full_df.index.duplicated(keep='first')]
RECURSIVE DropDuplicated(_)
DropDuplicated(s) ==
    IF s = <<>> THEN <<>>
    ELSE Only({IF Last(s) \in Range(r) THEN r ELSE Append(r, Last(s)) :
                 r \in {DropDuplicated(SubSeq(s, 1, Len(s) - 1))}})

\* lines 249-262: the returned series
Assemble(chunks) ==
    IF chunks = <<>> THEN <<>>
    ELSE Only({DropDuplicated(sorted) :
                 sorted \in {SortAsc(full_df) : full_df \in {Concat(chunks)}}})

\* a call download_stock_data(ticker, start_date, end_date)
FInit ==
    /\ fyers \in BOOLEAN
    /\ start_date \in 0..MaxStart
    /\ end_date \in (start_date - 1)..(start_date + MaxSpan)
    /\ f_pc = "start"
    /\ current_start = 0
    /\ current_end = 0
    /\ attempt = 0
    /\ all_data = <<>>
    /\ f_result = <<>>
    /\ admissions = 0
    /\ n_requests = 0
    /\ attempts_log = <<>>
    /\ requested = <<>>

\* lines 187-188: no provider client, return an empty series
NoClient ==
    /\ f_pc = "start"
    /\ fyers = FALSE
    /\ f_result' = <<>>
    /\ f_pc' = "done"
    /\ UNCHANGED <<fyers, start_date, end_date, current_start, current_end,
                   attempt, all_data, admissions, n_requests, attempts_log,
                   requested>>
    /\ UNCHANGED <<rl_vars, s_vars, a_vars, c_vars>>

\* lines 190-194
Begin ==
    /\ f_pc = "start"
    /\ fyers = TRUE
    /\ current_start' = start_date
    /\ all_data' = <<>>
    /\ f_pc' = "loop"
    /\ UNCHANGED <<fyers, start_date, end_date, current_end, attempt, f_result,
                   admissions, n_requests, attempts_log, requested>>
    /\ UNCHANGED <<rl_vars, s_vars, a_vars, c_vars>>

\* lines 196-200: the while condition holds; the for loop starts at attempt 0
WindowStart ==
    /\ f_pc = "loop"
    /\ current_start <= end_date
    /\ current_end' = WindowEnd(current_start, end_date)
    /\ attempt' = 0
    /\ attempts_log' = <<>>
    /\ f_pc' = "admit"
    /\ UNCHANGED <<fyers, start_date, end_date, current_start, all_data,
                   f_result, admissions, n_requests, requested>>
    /\ UNCHANGED <<rl_vars, s_vars, a_vars, c_vars>>

\* lines 196, 249-262: the while condition fails; assemble and return
Finish ==
    /\ f_pc = "loop"
    /\ current_start > end_date
    /\ f_result' = Assemble(all_data)
    /\ f_pc' = "done"
    /\ UNCHANGED <<fyers, start_date, end_date, current_start, current_end,
                   attempt, all_data, admissions, n_requests, attempts_log,
                   requested>>
    /\ UNCHANGED <<rl_vars, s_vars, a_vars, c_vars>>

\* line 203: fyers_rate_limiter.wait() returns, one admission recorded
Admit ==
    /\ f_pc = "admit"
    /\ admissions' = admissions + 1
    /\ f_pc' = "request"
    /\ UNCHANGED <<fyers, start_date, end_date, current_start, current_end,
                   attempt, all_data, f_result, n_requests, attempts_log,
                   requested>>
    /\ UNCHANGED <<rl_vars, s_vars, a_vars, c_vars>>

\* line 213: fyers.history(data) is called for [current_start, current_end];
\* the provider answers resp, after which the fetch sleeps for delay
Issue(resp, delay, ok) ==
    /\ f_pc = "request"
    /\ n_requests' = n_requests + 1
    /\ attempts_log' = Append(attempts_log, [resp |-> resp, delay |-> delay])
    /\ requested' =
         IF attempts_log = <<>>
         THEN Append(requested, [from |-> current_start, to |-> current_end,
                                 n |-> 1, ok |-> ok])
         ELSE [requested EXCEPT ![Len(requested)] =
                  [@ EXCEPT !.n = @ + 1, !.ok = ok]]
    /\ UNCHANGED <<fyers, start_date, end_date, current_end, admissions>>
    /\ UNCHANGED <<rl_vars, s_vars, a_vars, c_vars>>

\* lines 225/230/236 (break) or the for loop running out (244-245), then 247
LeaveWindow ==
    /\ current_start' = NextStart(current_end)
    /\ f_pc' = "loop"
    /\ UNCHANGED <<attempt, f_result>>

\* the for loop goes on to its next iteration, or runs out (lines 200, 244-247)
NextAttempt ==
    IF attempt + 1 < retries
    THEN /\ attempt' = attempt + 1
         /\ f_pc' = "admit"
         /\ UNCHANGED <<current_start, f_result>>
    ELSE LeaveWindow

\* a mutant that goes on to the next window instead of returning
RespInvalid_Break ==
    /\ Issue("invalid", 0, FALSE)
    /\ LeaveWindow
    /\ UNCHANGED all_data

\* lines 216-220: an error response whose message has "Invalid symbol"
RespInvalid ==
    /\ Issue("invalid", 0, FALSE)
    /\ f_result' = <<>>
    /\ f_pc' = "done"
    /\ UNCHANGED <<current_start, attempt, all_data>>

\* a mutant that retries without moving the for loop on
RespRateLimit_Uncounted ==
    /\ Issue("ratelimit", RATE_LIMIT_SLEEP_MS, FALSE)
    /\ f_pc' = "admit"
    /\ UNCHANGED <<current_start, attempt, f_result, all_data>>

\* lines 221-224: an error response whose message has "request limit reached":
\* sleep 0.2 s and continue
RespRateLimit ==
    /\ Issue("ratelimit", RATE_LIMIT_SLEEP_MS, FALSE)
    /\ NextAttempt
    /\ UNCHANGED all_data

\* a mutant that treats the error as transient: the for loop goes on
RespError_Retry ==
    /\ Issue("error", 0, FALSE)
    /\ NextAttempt
    /\ UNCHANGED all_data

\* lines 216-225: any other error response: break
RespError ==
    /\ Issue("error", 0, FALSE)
    /\ LeaveWindow
    /\ UNCHANGED all_data

\* a mutant that gives the fetch up, as for an invalid symbol
RespEmpty_Abort ==
    /\ Issue("empty", 0, FALSE)
    /\ f_result' = <<>>
    /\ f_pc' = "done"
    /\ UNCHANGED <<current_start, attempt, all_data>>

\* lines 227-230: no candles: break
RespEmpty ==
    /\ Issue("empty", 0, FALSE)
    /\ LeaveWindow
    /\ UNCHANGED all_data

\* lines 232-236: candles: keep the chunk and break
RespCandles ==
    \E c \in Payloads(current_start, current_end) :
        /\ Issue("candles", 0, TRUE)
        /\ all_data' = Append(all_data, c)
        /\ LeaveWindow

\* a mutant that retries without calling the rate limiter again
RetryFrom_NoAdmit == "request"

\* lines 200-203: every iteration of the for loop starts with wait()
RetryFrom == "admit"

\* lines 238-243: the request or the parsing of its payload raised
RespException ==
    /\ IF MayRetry(attempt)
       THEN /\ Issue("exception", Backoff(attempt), FALSE)
            /\ attempt' = attempt + 1
            /\ f_pc' = RetryFrom
            /\ UNCHANGED <<current_start, f_result>>
       ELSE /\ Issue("exception", 0, FALSE)
            /\ LeaveWindow
    /\ UNCHANGED all_data

FNext ==
    \/ NoClient
    \/ Begin
    \/ WindowStart
    \/ Finish
    \/ Admit
    \/ RespInvalid
    \/ RespRateLimit
    \/ RespError
    \/ RespEmpty
    \/ RespCandles
    \/ RespException

FSpecInit == FInit /\ RLInit /\ SIdle /\ AIdle /\ CIdle

SpecFetch == FSpecInit /\ [][FNext]_vars

\* the ranges of the calls whose termination is checked: empty, one day, one
\* full window, one window and a day, and the longest range
LiveSpans == {-1, 0, ChunkDays, ChunkDays + 1, MaxSpan}

\* a call download_stock_data(ticker, start_date, end_date) over one of them
FLiveInit ==
    /\ FInit
    /\ end_date - start_date \in LiveSpans
    /\ RLInit /\ SIdle /\ AIdle /\ CIdle

\* the call keeps running: the interpreter takes the next step, the rate
\* limiter admits (wait() returns) and the provider answers or the request
\* raises (the client's timeout)
SpecFetchLive == FLiveInit /\ [][FNext]_vars /\ WF_vars(FNext)

\* the provider's answer to the latest request of the current window
LastResp == IF attempts_log = <<>> THEN "none" ELSE Last(attempts_log).resp

\* this step is a request that the provider answers with r
Answered(r) ==
    /\ n_requests' = n_requests + 1
    /\ Last(attempts_log').resp = r

\* this step leaves the window untouched and goes back to the rate limiter
RetriesSameWindow ==
    /\ f_pc' = "admit"
    /\ current_start' = current_start
    /\ current_end' = current_end
    /\ attempt' = attempt + 1

\* this step gives the window up and moves to the next one
SkipsWindow ==
    /\ f_pc' = "loop"
    /\ current_start' = current_end + 1
    /\ all_data' = all_data

\* C2: once the provider has answered a request with an invalid-symbol error,
\* the fetch is over (no action of it is enabled any more, so neither a retry
\* nor a later window is requested) and its result is the empty series, also
\* when earlier windows had delivered candles.
C2_InvalidSymbolAborts ==
    LastResp = "invalid" => (f_pc = "done" /\ f_result = <<>> /\ ~ENABLED FNext)

\* C2 witness: the second window was answered with an invalid-symbol error
\* after the first had delivered candles, and a third window was never asked.
C2_Witness ==
    /\ f_pc = "done"
    /\ LastResp = "invalid"
    /\ all_data # <<>>
    /\ Len(requested) = 2
    /\ Last(requested).to < end_date
    /\ f_result = <<>>

\* C3 as claimed: a rate-limit answer is always followed by a retry of the
\* same window, however many attempts the window has used.
C3_Original ==
    [][Answered("ratelimit") =>
         (f_pc' = "admit" /\ current_start' = current_start
          /\ current_end' = current_end)]_vars

\* C3 as amended: a rate-limit answer is followed by the fixed 0.2 s delay and
\* uses up one of the window's `retries` attempts; the same window is retried
\* while attempts are left, and after the last attempt the window is skipped.
\* A successful answer within the attempts adds the window's candles.
C3_RateLimitCounted ==
    /\ [][Answered("ratelimit") =>
            /\ Last(attempts_log').delay = RATE_LIMIT_SLEEP_MS
            /\ all_data' = all_data
            /\ IF Len(attempts_log') < retries
               THEN RetriesSameWindow
               ELSE SkipsWindow]_vars
    /\ [][Answered("candles") =>
            /\ Len(all_data') = Len(all_data) + 1
            /\ Last(requested').ok]_vars

\* C3 witness: four rate-limit answers in a row, then candles on the fifth
\* attempt, which are kept.
C3_Witness ==
    /\ Len(attempts_log) = retries
    /\ \A i \in 1..(retries - 1) : attempts_log[i].resp = "ratelimit"
    /\ LastResp = "candles"
    /\ Last(requested).ok
    /\ Len(all_data) = Len(requested)

C5_AdmissionPerRequest ==
    admissions = n_requests + (IF f_pc = "request" THEN 1 ELSE 0)

\* C5 witness: a finished fetch that retried a window, with as many admissions
\* as requests.
C5_Witness ==
    /\ f_pc = "done"
    /\ \E i \in 1..Len(requested) : requested[i].n >= 3
    /\ admissions = n_requests
    /\ n_requests >= 4

\* the windows requested so far are the first windows of the partition of
\* [start_date, end_date] into 90-day windows
WindowsPrefix ==
    \A i \in 1..Len(requested) :
        /\ requested[i].from = (IF i = 1 THEN start_date ELSE requested[i - 1].to + 1)
        /\ requested[i].from <= requested[i].to
        /\ requested[i].to <= end_date
        /\ requested[i].to - requested[i].from + 1 <= ChunkDays + 1
        /\ (requested[i].to = end_date
            \/ requested[i].to - requested[i].from + 1 = ChunkDays + 1)
        /\ (i > 1 => requested[i - 1].to < requested[i].from)

\* the windows requested cover [start_date, end_date]
WindowsCover ==
    /\ Len(requested) = (end_date - start_date + 1 + ChunkDays) \div (ChunkDays + 1)
    /\ requested # <<>>
    /\ Last(requested).to = end_date

\* C6 as claimed: for every start_date <= end_date the windows requested by a
\* finished fetch (one that had a provider client) are the whole partition.
C6_Original ==
    /\ WindowsPrefix
    /\ (f_pc = "done" /\ start_date <= end_date /\ fyers) => WindowsCover

\* C6 as amended: the windows requested are always the first windows of the
\* partition, in ascending order; a fetch with a provider client that no
\* invalid-symbol answer ended has requested the whole partition,
\* ceil((end - start + 1) / 90) windows, the last ending at end_date; without a
\* provider client no window is requested.
C6_ChunkCoverage ==
    /\ WindowsPrefix
    /\ (f_pc = "done" /\ start_date <= end_date /\ fyers /\ LastResp # "invalid")
          => WindowsCover
    /\ (f_pc = "done" /\ ~fyers) => requested = <<>>

\* C6 witness: a finished fetch over three windows, the last one shorter.
C6_Witness ==
    /\ f_pc = "done"
    /\ Len(requested) = 3
    /\ WindowsCover
    /\ requested[3].to - requested[3].from + 1 < ChunkDays + 1
    /\ start_date > 0

\* the number of 90-day windows of [start_date, end_date]
NumWindows ==
    IF start_date > end_date THEN 0
    ELSE (end_date - start_date + 1 + ChunkDays) \div (ChunkDays + 1)

\* C20: the fetch terminates whatever the provider does; no window gets more
\* than 5 requests, the fetch issues at most 5 * ceil((end - start + 1) / 90)
\* requests, and none at all when start > end or without a provider client.
C20_Termination ==
    /\ <>(f_pc = "done")
    /\ [](\A i \in 1..Len(requested) : requested[i].n <= 5)
    /\ [](Len(requested) <= NumWindows)
    /\ [](n_requests <= 5 * NumWindows)
    /\ []((start_date > end_date \/ ~fyers) => n_requests = 0)

\* C20 witness: a finished fetch that spent 5 requests on each of its three
\* windows.
C20_Witness ==
    /\ f_pc = "done"
    /\ NumWindows = 3
    /\ n_requests = 15
    /\ \A i \in 1..3 : requested[i].n = 5

\* s is strictly increasing
StrictlyIncreasing(s) == \A i \in 1..(Len(s) - 1) : s[i] < s[i + 1]

\* the number of windows requested so far whose request succeeded
Succeeded == Cardinality({i \in 1..Len(requested) : requested[i].ok})

\* C15: a fetch that returns a non-empty series returns dates that are
\* strictly increasing; every chunk kept comes from a window whose request
\* succeeded and every returned candle is in a kept chunk; sorting and
\* deduplicating the returned series again changes nothing; a fetch in which
\* no window yielded data returns the empty series.
C15_SortedUnique ==
    /\ Len(all_data) = Succeeded
    /\ f_pc = "done" =>
          /\ f_result # <<>> =>
                /\ StrictlyIncreasing(f_result)
                /\ \A d \in Range(f_result) :
                      \E k \in 1..Len(all_data) : d \in Range(all_data[k])
                /\ DropDuplicated(SortAsc(f_result)) = f_result
          /\ all_data = <<>> => f_result = <<>>

\* C15 witness: the first two windows delivered candles out of order that
\* share a date, the third window delivered nothing; the returned series is
\* shorter than the chunks together.
C15_Witness ==
    /\ f_pc = "done"
    /\ Len(requested) = 3
    /\ requested[1].ok /\ requested[2].ok /\ ~requested[3].ok
    /\ Concat(all_data) # SortAsc(Concat(all_data))
    /\ Len(f_result) < Len(Concat(all_data))
    /\ f_result # <<>>

\* C16: an answer without candles is followed by no delay and no further
\* request for the window: the fetch moves on to the next window with
\* all_data untouched; the window counts as one without data, the fetch goes
\* on to the end of the range, and a fetch that no invalid-symbol answer
\* ended returns every candle of every chunk fetched.
C16_EmptyPayload ==
    /\ [][Answered("empty") =>
            /\ SkipsWindow
            /\ Last(attempts_log').delay = 0
            /\ ~Last(requested').ok
            /\ Len(requested') <= NumWindows]_vars
    /\ [](LastResp = "empty" =>
             \/ f_pc = "loop" /\ current_start = Last(requested).to + 1
             \/ f_pc = "done" /\ Last(requested).to = end_date)
    /\ []((f_pc = "done" /\ fyers /\ LastResp # "invalid") =>
             \A i \in 1..Len(all_data) : Range(all_data[i]) \subseteq Range(f_result))

\* C16 witness: the second window of three was answered without candles on
\* its first request; the first window's chunk is kept and the third window
\* is up next.
C16_Witness ==
    /\ f_pc = "loop"
    /\ Len(requested) = 2
    /\ attempts_log = <<[resp |-> "empty", delay |-> 0]>>
    /\ requested[1].ok
    /\ Len(all_data) = 1
    /\ current_start = requested[2].to + 1
    /\ current_start <= end_date

\* C19: an error answer that is neither an invalid symbol nor a rate limit
\* ends the window at once: no delay, no further request for the window,
\* all_data untouched; the fetch is not over: it moves on to the next window
\* and returns what the other windows delivered.
C19_OtherError ==
    /\ [][Answered("error") =>
            /\ SkipsWindow
            /\ Last(attempts_log').delay = 0
            /\ ~Last(requested').ok
            /\ f_result' = f_result]_vars
    /\ [](LastResp = "error" => (f_pc \in {"loop", "done"} /\ ((ENABLED FNext) <=> f_pc = "loop")))
    /\ []((f_pc = "done" /\ LastResp = "error") =>
             /\ Last(requested).to = end_date
             /\ f_result = Assemble(all_data)
             /\ \A i \in 1..Len(all_data) : Range(all_data[i]) \subseteq Range(f_result))

\* C19 witness: the first window of three was answered with such an error on
\* its first request; the second window is up next.
C19_Witness ==
    /\ f_pc = "loop"
    /\ Len(requested) = 1
    /\ attempts_log = <<[resp |-> "error", delay |-> 0]>>
    /\ NumWindows = 3
    /\ current_start = requested[1].to + 1
    /\ all_data = <<>>

\* C19 witness of the end of such a fetch: the last window was answered with
\* an error, and the candles of the first two windows are returned.
C19_ReturnsOthers ==
    /\ f_pc = "done"
    /\ LastResp = "error"
    /\ Len(requested) = 3
    /\ Len(all_data) = 2
    /\ f_result # <<>>

(***************************************************************************)
(* st.cache_data in front of download_stock_data (line 185).               *)
(*                                                                         *)
(* The decorator keys a call by the values of the function's parameters    *)
(* (ticker, start_date, end_date and retries, which every caller leaves at *)
(* its default), stores whatever the function returns and, given neither   *)
(* ttl nor max_entries, keeps every entry.  The client `fyers` is a global *)
(* that every run of the script builds again (line 183); it is not a       *)
(* parameter, so it is not part of the key.                                *)
(***************************************************************************)
MaxFetches == 3

\* the calls of the model, <<ticker, start_date, end_date>>: the first three
\* differ from one another in one parameter each way, the last in the ticker
CacheCalls == {<<1, 0, 0>>, <<1, 0, 1>>, <<1, 1, 1>>, <<2, 0, 0>>}

\* a mutant whose key leaves the end date out
CacheKey_NoEnd(t, s, e, r) == <<t, s, 0, r>>

\* lines 185-186: the key of a call, the values of the four parameters
CacheKey(t, s, e, r) == <<t, s, e, r>>

\* a mutant that does not keep an empty frame
Cacheable_NonEmpty(value) == value # <<>>

\* line 185: the decorator stores the function's return value, whatever it is
Cacheable(value) == TRUE

\* the cache's entries for key k (at most one)
Lookup(k) == {x \in cache : x.key = k}

\* the cache's key of the call download_stock_data(c[1], c[2], c[3])
KeyOf(c) == CacheKey(c[1], c[2], c[3], retries)

\* a call with the arguments c = <<ticker, start_date, end_date>> has completed
Seen(c) == \E x \in first : x.args = c

\* the arguments of the latest call
Args == <<ticker, start_date, end_date>>

\* why the call that is about to return has no data: no client (line 188),
\* an invalid-symbol answer (line 220), every attempt of its last window used
\* up (lines 244-245), or something else; "data" when it has some
Cause ==
    IF f_result # <<>> THEN "data"
    ELSE IF ~fyers THEN "client"
    ELSE IF LastResp = "invalid" THEN "invalid"
    ELSE IF Len(attempts_log) = retries THEN "exhausted"
    ELSE "other"

\* line 277, download_stock_data(t, s, e), in a run of the script whose line
\* 183 built `client`: the key is in the cache, the stored value is returned
\* and the function's body does not run
CacheHit(t, s, e, client) ==
    /\ c_pc \in {"idle", "returned"}
    /\ n_calls < MaxFetches
    /\ Lookup(KeyOf(<<t, s, e>>)) # {}
    /\ ticker' = t
    /\ start_date' = s
    /\ end_date' = e
    /\ fyers' = client
    /\ c_ret' = Only({x.value : x \in Lookup(KeyOf(<<t, s, e>>))})
    /\ c_seen' = Seen(<<t, s, e>>)
    /\ n_requests' = 0
    /\ n_calls' = n_calls + 1
    /\ c_pc' = "returned"
    /\ UNCHANGED <<cache, first>>
    /\ UNCHANGED <<f_pc, current_start, current_end, attempt, all_data,
                   f_result, admissions, attempts_log, requested>>
    /\ UNCHANGED <<rl_vars, s_vars, a_vars>>

\* the same call when the key is not in the cache: the function's body runs
CacheMiss(t, s, e, client) ==
    /\ c_pc \in {"idle", "returned"}
    /\ n_calls < MaxFetches
    /\ Lookup(KeyOf(<<t, s, e>>)) = {}
    /\ ticker' = t
    /\ start_date' = s
    /\ end_date' = e
    /\ fyers' = client
    /\ c_ret' = <<>>
    /\ c_seen' = Seen(<<t, s, e>>)
    /\ n_requests' = 0
    /\ n_calls' = n_calls + 1
    /\ c_pc' = "computing"
    /\ f_pc' = "start"
    /\ UNCHANGED <<cache, first>>
    /\ UNCHANGED <<current_start, current_end, attempt, all_data, f_result,
                   admissions, attempts_log, requested>>
    /\ UNCHANGED <<rl_vars, s_vars, a_vars>>

\* the function's body has returned: the decorator stores the value under the
\* call's key and hands it to the caller; the body's locals are gone
CacheStore ==
    /\ c_pc = "computing"
    /\ f_pc = "done"
    /\ cache' = IF Cacheable(f_result)
                THEN cache \cup {[key |-> KeyOf(Args), value |-> f_result]}
                ELSE cache
    /\ first' = IF Seen(Args) THEN first
                ELSE first \cup {[args |-> Args, value |-> f_result,
                                  cause |-> Cause]}
    /\ c_ret' = f_result
    /\ c_pc' = "returned"
    /\ f_pc' = "idle"
    /\ current_start' = 0
    /\ current_end' = 0
    /\ attempt' = 0
    /\ all_data' = <<>>
    /\ f_result' = <<>>
    /\ admissions' = 0
    /\ attempts_log' = <<>>
    /\ requested' = <<>>
    /\ UNCHANGED <<fyers, start_date, end_date, n_requests, ticker, c_seen,
                   n_calls>>
    /\ UNCHANGED <<rl_vars, s_vars, a_vars>>

\* a run of the script, with or without a client, reaches line 277
CacheCall ==
    \E c \in CacheCalls, client \in BOOLEAN :
        \/ CacheHit(c[1], c[2], c[3], client)
        \/ CacheMiss(c[1], c[2], c[3], client)

CNext ==
    \/ CacheCall
    \/ FNext
    \/ CacheStore

CSpecInit == CIdle /\ FIdle /\ RLInit /\ SIdle /\ AIdle

SpecCache == CSpecInit /\ [][CNext]_vars

\* the first completed call with the arguments c
FirstOf(c) == Only({x \in first : x.args = c})

\* C21: fetches are memoized by (ticker, start date, end date): once a fetch
\* for a key has completed, every later fetch with the same key issues no
\* provider request and returns the same series as the first one, an empty
\* series included; a fetch with a key that no fetch has completed runs the
\* function, and the cache holds one entry per completed key, the first
\* call's value
C21_Memoized ==
    /\ (c_pc = "returned" /\ c_seen) =>
          /\ n_requests = 0
          /\ c_ret = FirstOf(Args).value
    /\ c_pc = "returned" => Seen(Args) /\ c_ret = FirstOf(Args).value
    /\ c_pc = "computing" => ~c_seen
    /\ \A x \in first :
          Lookup(KeyOf(x.args)) = {[key |-> KeyOf(x.args), value |-> x.value]}
    /\ \A x \in cache : \E y \in first : x.key = KeyOf(y.args)

\* C21 (witness): a fetch made without a provider client returned an empty
\* series; a later fetch with the same key, now with a client, has returned
\* the empty series without a request
C21_Witness ==
    /\ c_pc = "returned"
    /\ c_seen
    /\ fyers = TRUE
    /\ FirstOf(Args).cause = "client"
    /\ FirstOf(Args).value = <<>>
    /\ c_ret = <<>>
    /\ n_requests = 0
    /\ n_calls >= 2

\* the same after an invalid-symbol answer
C21_AfterInvalid ==
    /\ c_pc = "returned" /\ c_seen /\ fyers = TRUE
    /\ FirstOf(Args).cause = "invalid"
    /\ c_ret = <<>> /\ n_requests = 0

\* the same after the last window's five attempts were used up
C21_AfterExhausted ==
    /\ c_pc = "returned" /\ c_seen /\ fyers = TRUE
    /\ FirstOf(Args).cause = "exhausted"
    /\ c_ret = <<>> /\ n_requests = 0

\* the same after a fetch that returned candles
C21_AfterData ==
    /\ c_pc = "returned" /\ c_seen
    /\ FirstOf(Args).cause = "data"
    /\ c_ret = FirstOf(Args).value /\ c_ret # <<>> /\ n_requests = 0

(***************************************************************************)
(* calculate_returns and process_symbol (lines 264-331).                   *)
(*                                                                         *)
(* A series is the sequence of the Close values of the frame that          *)
(* download_stock_data returned, oldest first; closes are positive.  A     *)
(* return close_a / close_b - 1 is the exact fraction <<a - b, b>>, and    *)
(* NaN is <<0, 0>>.  The volatility std * sqrt(252) is kept by its sign:   *)
(* "nan", "zero" (all daily returns equal) or "pos".  The momentum score   *)
(* is NaN or the weighted sum of the returns that the code divides by the  *)
(* volatility.                                                             *)
(***************************************************************************)
MaxBars == 70

\* the longest series of doubling closes
MaxDoubling == 12

\* the periods of lines 304-306
PERIOD_3M == 63

PERIOD_1M == 21

PERIOD_1W == 5

\* line 289: if data_points < 5
MIN_DATA_POINTS == 5

\* line 298: if len(valid_returns) < 5
MIN_RETURNS == 5

NaN == <<0, 0>>

\* a volatility that is NaN
VolNaN == "nan"

\* close_a / close_b - 1
Ret(a, b) == <<a - b, b>>

\* equality of two returns, each NaN or a fraction
RetEq(x, y) ==
    IF x = NaN \/ y = NaN THEN x = y ELSE x[1] * y[2] = y[1] * x[2]

\* a mutant whose base is `period` bars before the last one (the first bar
\* when there is no such bar)
BaseIndex_Before(n, period) == IF n > period THEN n - period ELSE 1

\* line 270: iloc[-period], as a 1-based index into a series of n bars
BaseIndex(n, period) == n - period + 1

\* a mutant that needs one bar more
TooShort_Le(n, period) == n <= period

\* line 268: if len(df) < period
TooShort(n, period) == n < period

\* lines 264-273
calculate_returns(df, period) ==
    IF TooShort(Len(df), period) THEN NaN
    ELSE Ret(df[Len(df)], df[BaseIndex(Len(df), period)])

\* line 294: df['Close'].pct_change(), without its leading NaN (line 297)
DailyReturns(df) ==
    [i \in 1..(Len(df) - 1) |-> Ret(df[i + 1], df[i])]

\* a mutant that accepts one return fewer
VolDefined_Four(rs) == Len(rs) >= MIN_RETURNS - 1

\* line 298
VolDefined(rs) == Len(rs) >= MIN_RETURNS

\* lines 298-301: the sign of valid_returns.std() * np.sqrt(252)
Volatility(rs) ==
    IF ~VolDefined(rs) THEN VolNaN
    ELSE IF \A i \in 1..Len(rs) : RetEq(rs[i], rs[1]) THEN "zero"
    ELSE "pos"

\* lines 311-313: r if pd.notna(r) else 0
OrZero(r) == IF r = NaN THEN <<0, 1>> ELSE r

\* lines 311-313: 0.2 * r3 + 0.3 * r1 + 0.5 * r0, as a fraction
WeightedSum(r3, r1, r0) ==
    LET a == OrZero(r3)
        b == OrZero(r1)
        c == OrZero(r0)
    IN <<2 * a[1] * b[2] * c[2] + 3 * b[1] * a[2] * c[2] + 5 * c[1] * a[2] * b[2],
         10 * a[2] * b[2] * c[2]>>

\* a mutant that divides whenever the volatility is a number
ScoreDefined_NotNaN(vol) == vol # VolNaN

\* line 309: if pd.notna(vol) and vol > 0
ScoreDefined(vol) == vol # VolNaN /\ vol = "pos"

\* a mutant in strict mode: a missing return makes the score NaN
MomentumScore_Strict(vol, r3, r1, r0) ==
    IF ScoreDefined(vol) /\ r3 # NaN /\ r1 # NaN /\ r0 # NaN
    THEN WeightedSum(r3, r1, r0) ELSE NaN

\* lines 309-315
MomentumScore(vol, r3, r1, r0) ==
    IF ScoreDefined(vol) THEN WeightedSum(r3, r1, r0) ELSE NaN

\* a mutant that lets a series of 4 bars through
Insufficient_Four(data_points) == data_points < MIN_DATA_POINTS - 1

\* line 289: if data_points < 5
Insufficient(data_points) == data_points < MIN_DATA_POINTS

\* lines 275-331: None, or the record of the symbol (ret says which)
process_symbol(df) ==
    IF df = <<>> THEN [ret |-> "None"]
    ELSE IF Insufficient(Len(df)) THEN [ret |-> "None"]
    ELSE LET data_points == Len(df)
             vol == Volatility(DailyReturns(df))
             r3 == IF data_points >= PERIOD_3M
                   THEN calculate_returns(df, PERIOD_3M) ELSE NaN
             r1 == IF data_points >= PERIOD_1M
                   THEN calculate_returns(df, PERIOD_1M) ELSE NaN
             r0 == IF data_points >= PERIOD_1W
                   THEN calculate_returns(df, PERIOD_1W) ELSE NaN
         IN [ret |-> "record",
             data_points |-> data_points,
             mom |-> MomentumScore(vol, r3, r1, r0),
             r3 |-> r3, r1 |-> r1, r0 |-> r0,
             vol |-> vol,
             price |-> df[Len(df)]]

\* the series the scorer is run on: n bars that are flat, rise by one a bar,
\* alternate, double (short series only), or are flat but for one step at bar k
SeriesFamily ==
    UNION {
        {[i \in 1..n |-> 10] : n \in 0..MaxBars},
        {[i \in 1..n |-> 10 + i] : n \in 0..MaxBars},
        {[i \in 1..n |-> 10 + (i % 2)] : n \in 0..MaxBars},
        {[i \in 1..n |-> Pow(2, i)] : n \in 0..MaxDoubling},
        UNION {{[i \in 1..n |-> IF i < k THEN 10 ELSE 12] : k \in 2..n} : n \in 2..MaxBars}
    }

SInit ==
    /\ series \in SeriesFamily
    /\ s_pc = "start"
    /\ s_result = [ret |-> "pending"]

\* one call process_symbol(t, start, end) on the fetched series
ProcessSymbol ==
    /\ s_pc = "start"
    /\ s_result' = process_symbol(series)
    /\ s_pc' = "done"
    /\ UNCHANGED series
    /\ UNCHANGED <<rl_vars, f_vars, a_vars, c_vars>>

SNext == ProcessSymbol

SSpecInit == SInit /\ RLInit /\ FIdle /\ AIdle /\ CIdle

SpecScore == SSpecInit /\ [][SNext]_vars

\* the periods of lines 304-306 with the field of the record each one fills
Lookbacks == {<<PERIOD_3M, "r3">>, <<PERIOD_1M, "r1">>, <<PERIOD_1W, "r0">>}

Scored == s_pc = "done" /\ s_result.ret = "record"

\* the daily returns of the series have no variance
ZeroVariance ==
    \A i, j \in 1..(Len(series) - 1) :
        series[i + 1] * series[j] = series[j + 1] * series[i]

\* C7: the score of a scored symbol is undefined when the series has fewer
\* than 5 daily returns or its daily returns have no variance, whatever the
\* trailing returns are; otherwise it is defined and is the weighted sum in
\* which an undefined trailing return counts 0.
C7_ScoreDefinedness ==
    Scored =>
        IF Len(series) - 1 < 5 \/ ZeroVariance
        THEN s_result.mom = NaN /\ s_result.vol \in {VolNaN, "zero"}
        ELSE /\ s_result.vol = "pos"
             /\ s_result.mom # NaN
             /\ s_result.mom =
                  WeightedSum(IF Len(series) >= 63 THEN s_result.r3 ELSE <<0, 1>>,
                              IF Len(series) >= 21 THEN s_result.r1 ELSE <<0, 1>>,
                              s_result.r0)
             /\ (Len(series) < 63 => s_result.r3 = NaN)
             /\ (Len(series) < 21 => s_result.r1 = NaN)

\* C7 witness: 70 bars whose returns have no variance: the three trailing
\* returns are defined and the score is not.
C7_Witness ==
    /\ Scored
    /\ Len(series) = 70
    /\ ZeroVariance
    /\ s_result.r3 # NaN /\ s_result.r1 # NaN /\ s_result.r0 # NaN
    /\ s_result.vol = "zero"
    /\ s_result.mom = NaN

\* C8 as claimed: with more than L bars the trailing return over L is
\* close[last] / close[last - L] - 1 (with exactly L bars that base bar does
\* not exist, and the claim is left unchecked there).
C8_Original ==
    Scored =>
        \A lb \in Lookbacks :
            Len(series) > lb[1] =>
                RetEq(s_result[lb[2]],
                      Ret(series[Len(series)], series[Len(series) - lb[1]]))

\* C8 as amended: with at least L bars the trailing return over L is
\* close[last] / close[last - (L - 1)] - 1, its base being the L-th bar from
\* the end; with fewer than L bars it is undefined.
C8_TrailingReturn ==
    Scored =>
        \A lb \in Lookbacks :
            IF Len(series) >= lb[1]
            THEN /\ s_result[lb[2]] # NaN
                 /\ RetEq(s_result[lb[2]],
                          Ret(series[Len(series)], series[Len(series) - (lb[1] - 1)]))
            ELSE s_result[lb[2]] = NaN

\* C8 witness: a rising series of exactly 63 bars: the three returns are
\* defined, the longest one from the first bar.
C8_Witness ==
    /\ Scored
    /\ Len(series) = 63
    /\ series[1] < series[2]
    /\ s_result.r3 = Ret(series[63], series[1])
    /\ s_result.r1 # NaN
    /\ s_result.r0 # NaN

(***************************************************************************)
(* analyze_universe, get_top_universes_by_momentum and                     *)
(* get_top_momentum_stocks_overall (lines 333-379).                        *)
(*                                                                         *)
(* A row is [ticker, score]; a score or an average is a fraction           *)
(* <<numerator, denominator>>, NaN being <<0, 0>>.  What process_symbol    *)
(* returns for a symbol is chosen by the step that processes it.           *)
(***************************************************************************)
\* the tickers whose outcome is chosen among all four kinds
RichTickers == 3

\* unique.head(10) (line 379)
HEAD_N == 10

\* STOCK_UNIVERSE (line 9), in the order of its items: two universes that
\* share ticker 2 and an empty one
UniverseNames == <<"A", "B", "C">>

STOCK_UNIVERSE ==
    [A |-> <<1, 2>>, B |-> <<2, 3, 4, 5, 6, 7, 8, 9, 10, 11, 12>>, C |-> <<>>]

Frac(n) == <<n, 1>>

\* x > y for two fractions that are not NaN
FracGt(x, y) == x[1] * y[2] > y[1] * x[2]

\* what process_symbol may return for ticker t: None, a record whose score is
\* NaN, or a record with a score
Outcomes(t) ==
    IF t <= RichTickers
    THEN {[ret |-> "None", score |-> NaN], [ret |-> "record", score |-> NaN],
          [ret |-> "record", score |-> Frac(1)], [ret |-> "record", score |-> Frac(3)]}
    ELSE {[ret |-> "None", score |-> NaN], [ret |-> "record", score |-> Frac((t % 4) - 1)]}

\* what the fetch and the scoring of ticker t may do: raise an exception
\* somewhere inside process_symbol's try block, or go through with a fetched
\* series of `bars` bars (every case for the two tickers of universe A, the
\* second of which is the first of universe B)
Inputs(t) ==
    IF t \in {1, 2}
    THEN {[raised |-> TRUE, bars |-> 0]}
            \cup {[raised |-> FALSE, bars |-> b] : b \in {0, 4, 5, 6}}
    ELSE {[raised |-> FALSE, bars |-> b] : b \in {0, 6}}

\* a mutant without the try block: the exception leaves process_symbol
ProcessSymbolRet_NoTry(inp) ==
    IF inp.raised THEN "raise"
    ELSE IF inp.bars = 0 THEN "None"
    ELSE IF Insufficient(inp.bars) THEN "None"
    ELSE "record"

\* lines 276-331, what process_symbol hands back: None from the except block
\* (lines 327-331), from df.empty (lines 278-280) and from too few bars
\* (lines 289-291), else the record of lines 317-326
ProcessSymbolRet(inp) ==
    IF inp.raised THEN "None"
    ELSE IF inp.bars = 0 THEN "None"
    ELSE IF Insufficient(inp.bars) THEN "None"
    ELSE "record"

\* the outcome o goes with the input: a record only when process_symbol
\* returns one, a score only with at least MIN_RETURNS daily returns (line 298)
Fits(inp, r, o) ==
    IF r = "record"
    THEN o.ret = "record" /\ (o.score # NaN => inp.bars - 1 >= MIN_RETURNS)
    ELSE o.ret = "None"

\* a mutant that keeps the rows whose score is NaN
NotNa_All(d) == d

\* line 352 and line 376: the rows whose score is not NaN
NotNa(d) == SelectSeq(d, LAMBDA r : r.score # NaN)

RECURSIVE SumScores(_)
SumScores(d) ==
    IF d = <<>> THEN 0 ELSE Head(d).score[1] + SumScores(Tail(d))

\* line 353: df_res["Momentum Score"].mean() if not df_res.empty else np.nan
\* (the scores of the rows are whole numbers)
Mean(d) == IF d = <<>> THEN NaN ELSE <<SumScores(d), Len(d)>>

\* lines 347-354: (df_res, avg_score) from the rows collected
AnalyzeResult(rs) ==
    IF rs = <<>> THEN [df |-> <<>>, avg |-> NaN]
    ELSE [df |-> NotNa(rs), avg |-> Mean(NotNa(rs))]

\* a mutant that sorts ascending
SortsBefore_Asc(x, y) == x # NaN /\ (y = NaN \/ FracGt(y, x))

\* sort_values(..., ascending=False), NaN last: x goes before y
SortsBefore(x, y) == x # NaN /\ (y = NaN \/ FracGt(x, y))

\* x and y compare equal (the sort is not stable: either may come first)
SortsEqual(x, y) == ~SortsBefore(x, y) /\ ~SortsBefore(y, x)

\* inserts r into the sorted s; among equal scores r goes first or last
RECURSIVE InsertDesc(_, _, _)
InsertDesc(r, s, tie) ==
    IF s = <<>> THEN <<r>>
    ELSE IF SortsBefore(r.score, Head(s).score)
            \/ (tie = "first" /\ SortsEqual(r.score, Head(s).score))
         THEN <<r>> \o s
         ELSE <<Head(s)>> \o InsertDesc(r, Tail(s), tie)

\* lines 361 and 377: sort_values(<score>, ascending=False), NaN last
RECURSIVE SortDesc(_, _)
SortDesc(s, tie) ==
    IF s = <<>> THEN <<>>
    ELSE InsertDesc(Last(s), SortDesc(SubSeq(s, 1, Len(s) - 1), tie), tie)

\* a mutant that keeps the last row of each ticker
RECURSIVE DropDuplicates_Last(_)
DropDuplicates_Last(s) ==
    IF s = <<>> THEN <<>>
    ELSE IF \E i \in 2..Len(s) : s[i].ticker = Head(s).ticker
         THEN DropDuplicates_Last(Tail(s))
         ELSE <<Head(s)>> \o DropDuplicates_Last(Tail(s))

\* line 378: drop_duplicates(subset=["Ticker"], keep="first")
RECURSIVE DropDuplicates(_)
DropDuplicates(s) ==
    IF s = <<>> THEN <<>>
    ELSE LET r == DropDuplicates(SubSeq(s, 1, Len(s) - 1))
         IN IF \E i \in 1..Len(r) : r[i].ticker = Last(s).ticker
            THEN r ELSE Append(r, Last(s))

\* a mutant that returns one row more
HeadN_More(s) == SubSeq(s, 1, Min(HEAD_N + 1, Len(s)))

\* line 379: unique.head(10)
HeadN(s) == SubSeq(s, 1, Min(HEAD_N, Len(s)))

\* line 375: pd.concat(all_dfs) over the universes in order
RECURSIVE ConcatDfs(_, _)
ConcatDfs(res, i) ==
    IF i > Len(UniverseNames) THEN <<>>
    ELSE res[i].df \o ConcatDfs(res, i + 1)

\* lines 367-379 once every universe is analyzed
TopOverall(res, tie) ==
    HeadN(DropDuplicates(SortDesc(NotNa(ConcatDfs(res, 1)), tie)))

\* lines 357-361 once every universe is analyzed; a row is [universe, score]
RankUniverses(res, tie) ==
    SortDesc([i \in 1..Len(UniverseNames) |->
                 [universe |-> UniverseNames[i], score |-> res[i].avg]], tie)

AInit ==
    /\ a_pc = "analyze"
    /\ uni = 1
    /\ sym = 1
    /\ rows = <<>>
    /\ in_flight = {}
    /\ processed = <<>>
    /\ results = <<>>
    /\ ranking = <<>>
    /\ top = <<>>

\* a mutant that hands the symbols to a pool of 10 workers: the next symbol is
\* started while earlier ones are still being fetched
CallSymbol_Pool ==
    /\ a_pc = "analyze"
    /\ uni <= Len(UniverseNames)
    /\ Cardinality(in_flight) < 10
    /\ sym + Cardinality(in_flight) <= Len(STOCK_UNIVERSE[UniverseNames[uni]])
    /\ in_flight' = in_flight \cup
          {[ticker |-> STOCK_UNIVERSE[UniverseNames[uni]][sym + Cardinality(in_flight)],
            limiter |-> "fyers_rate_limiter"]}
    /\ UNCHANGED <<a_pc, uni, sym, rows, processed, results, ranking, top>>
    /\ UNCHANGED <<rl_vars, f_vars, s_vars, c_vars>>

\* lines 341-342: the loop takes the next symbol and calls process_symbol in
\* the calling thread; the fetch inside it (line 277) goes through the
\* module's one RateLimiter (lines 69 and 203)
CallSymbol ==
    /\ a_pc = "analyze"
    /\ uni <= Len(UniverseNames)
    /\ in_flight = {}
    /\ sym <= Len(STOCK_UNIVERSE[UniverseNames[uni]])
    /\ in_flight' = {[ticker |-> STOCK_UNIVERSE[UniverseNames[uni]][sym],
                      limiter |-> "fyers_rate_limiter"]}
    /\ UNCHANGED <<a_pc, uni, sym, rows, processed, results, ranking, top>>
    /\ UNCHANGED <<rl_vars, f_vars, s_vars, c_vars>>

\* lines 342-345: process_symbol returns and the row, if any, is appended.  The
\* call of process_symbol is not inside a try: were it to raise, the exception
\* would leave analyze_universe ("crashed").
ReturnSymbol ==
    /\ a_pc = "analyze"
    /\ \E f \in in_flight :
          LET t == f.ticker
              done == IF sym = 1 THEN <<>> ELSE processed
          IN /\ in_flight' = in_flight \ {f}
             /\ \E inp \in Inputs(t) : \E o \in Outcomes(t) :
                   LET r == ProcessSymbolRet(inp)
                   IN /\ Fits(inp, r, o)
                      /\ processed' = Append(done, [ticker |-> t, raised |-> inp.raised,
                                                    bars |-> inp.bars, ret |-> r,
                                                    score |-> o.score])
                      /\ rows' = IF r = "record"
                                 THEN Append(rows, [ticker |-> t, score |-> o.score])
                                 ELSE rows
                      /\ a_pc' = IF r = "raise" THEN "crashed" ELSE a_pc
    /\ sym' = sym + 1
    /\ UNCHANGED <<uni, results, ranking, top>>
    /\ UNCHANGED <<rl_vars, f_vars, s_vars, c_vars>>

\* lines 347-354: the loop is over; analyze_universe returns, and the caller's
\* loop over STOCK_UNIVERSE.items() goes on (lines 358-360 and 369-372)
ReturnUniverse ==
    /\ a_pc = "analyze"
    /\ uni <= Len(UniverseNames)
    /\ sym > Len(STOCK_UNIVERSE[UniverseNames[uni]])
    /\ in_flight = {}
    /\ results' = Append(results, AnalyzeResult(rows))
    /\ processed' = IF sym = 1 THEN <<>> ELSE processed
    /\ rows' = <<>>
    /\ sym' = 1
    /\ uni' = uni + 1
    /\ UNCHANGED in_flight
    /\ a_pc' = IF uni = Len(UniverseNames) THEN "collected" ELSE "analyze"
    /\ UNCHANGED <<ranking, top>>
    /\ UNCHANGED <<rl_vars, f_vars, s_vars, c_vars>>

\* line 361: get_top_universes_by_momentum sorts and returns
GetTopUniverses ==
    /\ a_pc = "collected"
    /\ \E tie \in {"first", "last"} : ranking' = RankUniverses(results, tie)
    /\ a_pc' = "ranked"
    /\ UNCHANGED <<uni, sym, rows, in_flight, processed, results, top>>
    /\ UNCHANGED <<rl_vars, f_vars, s_vars, c_vars>>

\* lines 373-379: get_top_momentum_stocks_overall sorts, deduplicates, returns
GetTopOverall ==
    /\ a_pc = "collected"
    /\ \E tie \in {"first", "last"} : top' = TopOverall(results, tie)
    /\ a_pc' = "top"
    /\ UNCHANGED <<uni, sym, rows, in_flight, processed, results, ranking>>
    /\ UNCHANGED <<rl_vars, f_vars, s_vars, c_vars>>

ANext ==
    \/ CallSymbol
    \/ ReturnSymbol
    \/ ReturnUniverse
    \/ GetTopUniverses
    \/ GetTopOverall

ASpecInit == AInit /\ RLInit /\ FIdle /\ SIdle /\ CIdle

SpecAgg == ASpecInit /\ [][ANext]_vars

\* every row with a score that some universe's analysis returned
AllRows == {r \in Range(ConcatDfs(results, 1)) : r.score # NaN}

\* C9: get_top_momentum_stocks_overall returns at most 10 rows (all the
\* tickers when there are at most 10), each with a score, in non-increasing
\* order of score, no ticker twice; a returned row carries the highest score
\* its ticker has in any universe, and no ticker left out has a higher score
\* than a returned one.
C9_TopOverall ==
    a_pc = "top" =>
        /\ Len(top) <= 10
        /\ Len(top) = Min(10, Cardinality({r.ticker : r \in AllRows}))
        /\ \A i \in 1..Len(top) : top[i].score # NaN /\ top[i] \in AllRows
        /\ \A i, j \in 1..Len(top) :
              i < j => (~FracGt(top[j].score, top[i].score)
                        /\ top[i].ticker # top[j].ticker)
        /\ \A i \in 1..Len(top) : \A r \in AllRows :
              r.ticker = top[i].ticker => ~FracGt(r.score, top[i].score)
        /\ \A r \in AllRows :
              (\A i \in 1..Len(top) : top[i].ticker # r.ticker)
                 => \A i \in 1..Len(top) : ~FracGt(r.score, top[i].score)

\* C9 witness: eleven tickers have a score, ticker 2 twice (3 in universe A,
\* 1 in universe B); ten rows are returned, ticker 2 with its score of 3.
C9_Witness ==
    /\ a_pc = "top"
    /\ Cardinality({r.ticker : r \in AllRows}) > 10
    /\ [ticker |-> 2, score |-> Frac(3)] \in Range(results[1].df)
    /\ [ticker |-> 2, score |-> Frac(1)] \in Range(results[2].df)
    /\ Len(top) = 10
    /\ \E i \in 1..Len(top) : top[i] = [ticker |-> 2, score |-> Frac(3)]

\* C10: get_top_universes_by_momentum returns one row per universe, carrying
\* the average that analyze_universe returned for it, in non-increasing order
\* of average, every NaN average after every average that is a number.
C10_UniverseRanking ==
    a_pc = "ranked" =>
        /\ Len(ranking) = Len(UniverseNames)
        /\ \A u \in 1..Len(UniverseNames) :
              \E i \in 1..Len(ranking) :
                 /\ ranking[i].universe = UniverseNames[u]
                 /\ ranking[i].score = results[u].avg
        /\ \A i, j \in 1..Len(ranking) :
              i < j =>
                 /\ ranking[i].score = NaN => ranking[j].score = NaN
                 /\ (ranking[i].score # NaN /\ ranking[j].score # NaN)
                       => ~FracGt(ranking[j].score, ranking[i].score)

\* C10 witness: universe B has the higher average and is ranked before
\* universe A, which was analyzed first; the universe without a score is last.
C10_Witness ==
    /\ a_pc = "ranked"
    /\ ranking[1].universe = "B"
    /\ ranking[2].universe = "A"
    /\ ranking[2].score # NaN
    /\ FracGt(ranking[1].score, ranking[2].score)
    /\ ranking[3].score = NaN

\* analyze_universe has just returned for universe Len(results), and
\* `processed` is the history of that call
Returned == results # <<>> /\ sym = 1 /\ a_pc # "crashed"

\* the symbols of the universe that has just returned
ReturnedSymbols == STOCK_UNIVERSE[UniverseNames[Len(results)]]

\* the processed symbols that got a record with a score
WithScore == SelectSeq(processed, LAMBDA e : e.ret = "record" /\ e.score # NaN)

\* the sum of the scores (whole numbers) of the entries of p
RECURSIVE Total(_)
Total(p) == IF p = <<>> THEN 0 ELSE Total(Tail(p)) + Head(p).score[1]

\* C11: what analyze_universe returns holds one row for each symbol whose
\* score is defined and no other row; the average is the mean of those
\* scores; when no symbol has a defined score (every symbol failed, had too
\* little data or an undefined score, or the universe has no symbol) the
\* average is NaN and the result is empty, and nothing is raised.
C11_UniverseAverage ==
    /\ a_pc # "crashed"
    /\ Returned =>
          LET res == Last(results)
          IN /\ Len(processed) = Len(ReturnedSymbols)
             /\ res.df = [i \in 1..Len(WithScore) |->
                             [ticker |-> WithScore[i].ticker,
                              score |-> WithScore[i].score]]
             /\ IF WithScore = <<>>
                THEN res.avg = NaN /\ res.df = <<>>
                ELSE /\ res.avg # NaN
                     /\ res.avg[1] * Len(WithScore) = Total(WithScore) * res.avg[2]

\* C11 witness: universe B has returned; one symbol raised, one got a record
\* without a score, four have scores that add up to 3: the average is 3/4.
C11_Witness ==
    /\ Returned
    /\ Len(results) = 2
    /\ \E i \in 1..Len(processed) : processed[i].raised
    /\ \E i \in 1..Len(processed) :
          processed[i].ret = "record" /\ processed[i].score = NaN
    /\ Len(WithScore) = 4
    /\ Total(WithScore) = 3
    /\ Last(results).avg = <<3, 4>>

\* C11 witness of the empty case is part of the same run: universe C has no
\* symbol and returns an empty result with a NaN average.
C11_EmptyUniverse ==
    /\ Returned
    /\ Len(results) = 3
    /\ ReturnedSymbols = <<>>
    /\ Last(results) = [df |-> <<>>, avg |-> NaN]

\* the tickers of the rows of a frame
Tickers(d) == {d[i].ticker : i \in 1..Len(d)}

\* the fetch or the scoring of this symbol failed: it raised, or gave no data
Failed(e) == e.raised \/ e.bars = 0

\* C14: no exception leaves analyze_universe; a symbol that raised or gave no
\* data adds no row; the loop goes on to every other symbol of the universe,
\* in order, and each of them that gets a score has its row in the result.
C14_FailureConfined ==
    /\ a_pc # "crashed"
    /\ a_pc = "analyze" /\ sym > 1 =>
          /\ \A i \in 1..Len(processed) :
                Failed(processed[i]) => processed[i].ticker \notin Tickers(rows)
          /\ Len(processed) = sym - 1
    /\ Returned =>
          /\ Len(processed) = Len(ReturnedSymbols)
          /\ \A i \in 1..Len(processed) :
                /\ processed[i].ticker = ReturnedSymbols[i]
                /\ Failed(processed[i]) =>
                      processed[i].ticker \notin Tickers(Last(results).df)
                /\ (processed[i].ret = "record" /\ processed[i].score # NaN) =>
                      [ticker |-> processed[i].ticker, score |-> processed[i].score]
                         \in Range(Last(results).df)

\* C14 witness: in universe B the first symbol raised and a later one gave no
\* data; the symbols after them were processed and the last one, which has a
\* score, is in the result.
C14_Witness ==
    /\ Returned
    /\ Len(results) = 2
    /\ processed[1].raised
    /\ \E i \in 2..(Len(processed) - 1) : ~processed[i].raised /\ processed[i].bars = 0
    /\ Last(processed).ret = "record"
    /\ Last(processed).score # NaN
    /\ Last(Last(results).df).ticker = Last(processed).ticker

\* C17: a symbol whose fetched series has fewer than 5 bars gets no record;
\* it is in no row while the universe is analyzed and in no row of the
\* result, the average is the mean over the other symbols' scores, and
\* nothing is raised.
C17_InsufficientData ==
    /\ a_pc # "crashed"
    /\ \A i \in 1..Len(processed) :
          processed[i].bars < 5 =>
             /\ processed[i].ret = "None"
             /\ a_pc = "analyze" /\ sym > 1 => processed[i].ticker \notin Tickers(rows)
             /\ Returned => processed[i].ticker \notin Tickers(Last(results).df)
    /\ Returned =>
          LET others == SelectSeq(processed, LAMBDA e : e.bars >= 5 /\ e.score # NaN)
              avg == Last(results).avg
          IN IF others = <<>> THEN avg = NaN
             ELSE avg # NaN /\ avg[1] * Len(others) = Total(others) * avg[2]

\* C17 witness: universe A has returned; its first symbol came with 4 bars and
\* has no row, its second one has a score of 3, which is the average.
C17_Witness ==
    /\ Returned
    /\ Len(results) = 1
    /\ ~processed[1].raised /\ processed[1].bars = 4
    /\ processed[2].score = Frac(3)
    /\ Last(results) = [df |-> <<[ticker |-> 2, score |-> Frac(3)]>>, avg |-> <<3, 1>>]

\* the symbols of the universe in hand
Symbols == IF uni <= Len(UniverseNames) THEN STOCK_UNIVERSE[UniverseNames[uni]] ELSE <<>>

====
